---- MODULE Spec2Model ----
(***************************************************************************)
(* Model of gitui's asynchronous push controller (asyncgit/src/push.rs)    *)
(* and of the rebase engine (asyncgit/src/sync/rebase.rs).                 *)
(*                                                                         *)
(* Spec        : the AsyncPush controller: the owning (UI) thread, the     *)
(*               worker threads it spawns and each worker's relay thread.  *)
(* SpecRebase  : the rebase functions called one after another on a        *)
(*               repository, over a model of the git2 rebase object.       *)
(***************************************************************************)
EXTENDS Integers, Sequences, FiniteSets, TLC

\* ------------------------------------------------------------------ bounds
\* accepted requests (worker threads ever spawned) in one behaviour
MaxRequests == 2
\* progress events one blocking push emits before it returns
MaxEvents == 1
\* commits on the branch being rebased that the target does not have
MaxSteps == 2
\* calls of rebase functions in one behaviour
MaxCalls == 3

\* ------------------------------------------------------------ Option<T>
\* Option<T> is a sequence of length at most one.
None == << >>
Some(x) == << x >>
IsSome(o) == o # None
Unwrap(o) == o[1]

\* =====================================================================
\*                       AsyncPush  (push.rs)
\* =====================================================================

VARIABLES
    state,          \* AsyncPush.state       : Option<PushState>
    last_result,    \* AsyncPush.last_result : Option<String>
    progress,       \* AsyncPush.progress    : Option<ProgressNotification>
    notifs,         \* AsyncPush.sender      : channel to the UI event loop
    ui,             \* the owning thread: where it is inside request(), what
                    \* its last call returned and how that call ended
    workers,        \* the worker threads, by spawn order
    relays,         \* each worker's relay thread
    nSpawned,       \* worker threads spawned so far
    lastFinal,      \* op of the last final notification the UI received
    locks,          \* who holds the mutex of each of the three cells
    slotOp          \* history: op whose relay last wrote the slot, 0 if reset

pushVars == << state, last_result, progress, notifs, ui, workers, relays,
               nSpawned, lastFinal, locks, slotOp >>

\* the repository the rebase engine works on (described further below)
VARIABLES
    repo,           \* the repository: commits, HEAD, branch, index, rebase
    target,         \* the annotated commit the branch is rebased onto
    conflicting,    \* commits whose changes conflict with the target's
    call,           \* the rebase function being executed / last returned
    nCalls,         \* calls made so far
    preRebase       \* HEAD, branch and commit count when the open rebase began

rebaseVars == << repo, target, conflicting, call, nCalls, preRebase >>

\* PushRequest values a caller submits (remote/branch/flags abstracted)
PushRequests == { "origin/main", "origin/dev" }

\* PushState { request }
PushState(params) == [ request |-> params ]

\* errors the blocking push may return, and their Display text (error.rs);
\* Generic("") displays as two backquotes, written here as two apostrophes
PushErrors == { "UnknownRemote", "GenericEmpty" }

ErrorToString(e) ==
    CASE e = "UnknownRemote" -> "git: remote url not found"
      [] e = "GenericEmpty"  -> "''"

\* Result<()> of the blocking push
Ok == [ ok |-> TRUE, err |-> "" ]
Err(e) == [ ok |-> FALSE, err |-> e ]
PushResults == { Ok } \cup { Err(e) : e \in PushErrors }

\* ProgressNotification values
Transfer(n) == [ kind |-> "Transfer", n |-> n ]
Done == [ kind |-> "Done", n |-> 0 ]
is_done(update) == update.kind = "Done"

\* AsyncGitNotification::Push as sent by operation op; `final` tells the
\* worker's completion notification from the relay's per-event ones (the
\* code sends the same value for both).
Notification(op, final) == [ op |-> op, final |-> final ]

Workers == 1..MaxRequests

\* sent: every event the worker has put into its Progress Channel
IdleWorker ==
    [ pc |-> "unspawned", params |-> "", res |-> Ok,
      chan |-> << >>, emitted |-> 0, sent |-> << >> ]

\* written: every value the relay has stored into the Shared Progress Slot
IdleRelay == [ pc |-> "unspawned", update |-> Done, written |-> << >> ]

\* Mutex::lock() succeeds once no thread holds the mutex; the guard is
\* dropped at the end of the function that took it
Free(m) == locks[m] = ""

\* AsyncPush::new
InitPush ==
    /\ state = None
    /\ last_result = None
    /\ progress = None
    /\ notifs = << >>
    /\ ui = [ pc |-> "idle", params |-> "", ret |-> None, how |-> "none" ]
    /\ workers = [ w \in Workers |-> IdleWorker ]
    /\ relays = [ w \in Workers |-> IdleRelay ]
    /\ nSpawned = 0
    /\ lastFinal = 0
    /\ locks = [ state |-> "", last_result |-> "", progress |-> "" ]
    /\ slotOp = 0

\* ---- the polling API
is_pending == IsSome(state)

last_result_get == last_result

\* the UI-facing shape of a progress event (`.into()` in progress())
RemoteProgressFrom(update) ==
    IF is_done(update)
    THEN [ state |-> "Done", progress |-> 100 ]
    ELSE [ state |-> "Transfer", progress |-> (update.n * 100) \div (MaxEvents + 2) ]

\* progress(): the slot's value, converted
progress_get ==
    IF IsSome(progress) THEN Some(RemoteProgressFrom(Unwrap(progress))) ELSE None

\* requests accepted so far: a worker spawned, or about to be
nAccepted ==
    nSpawned + (IF ui.pc \in { "set_progress", "spawn" } THEN 1 ELSE 0)

\* ---- request(), on the owning thread
\* (variant: a request made while one is pending replaces the stored one)
RequestCheckOverwrites(params) ==
    /\ ui.pc = "idle"
    /\ Free("state")
    /\ is_pending \/ nSpawned < MaxRequests
    /\ IF is_pending
       THEN /\ ui' = [ pc |-> "idle", params |-> "", ret |-> Some("Ok"),
                       how |-> "dropped" ]
            /\ state' = Some([ request |-> params ])
       ELSE /\ ui' = [ pc |-> "set_request", params |-> params, ret |-> None,
                       how |-> "running" ]
            /\ UNCHANGED state
    /\ UNCHANGED << last_result, progress, notifs, workers, relays,
                    nSpawned, lastFinal >>
    /\ UNCHANGED << locks, slotOp, rebaseVars >>

\* (variant: request() goes on to set_request without the pending check)
RequestCheckSkipsPending(params) ==
    /\ ui.pc = "idle"
    /\ Free("state")
    /\ is_pending \/ nSpawned < MaxRequests
    /\ ui' = [ pc |-> "set_request", params |-> params, ret |-> None,
               how |-> "running" ]
    /\ UNCHANGED << state, last_result, progress, notifs, workers, relays,
                    nSpawned, lastFinal >>
    /\ UNCHANGED << locks, slotOp, rebaseVars >>

\* `if self.is_pending()? { return Ok(()); }`
RequestCheck(params) ==
    /\ ui.pc = "idle"
    /\ Free("state")
    /\ is_pending \/ nSpawned < MaxRequests
    /\ IF is_pending
       THEN ui' = [ pc |-> "idle", params |-> "", ret |-> Some("Ok"),
                    how |-> "dropped" ]
       ELSE ui' = [ pc |-> "set_request", params |-> params, ret |-> None,
                    how |-> "running" ]
    /\ UNCHANGED << state, last_result, progress, notifs, workers, relays,
                    nSpawned, lastFinal >>
    /\ UNCHANGED << locks, slotOp, rebaseVars >>

\* set_request: fails on an occupied cell, else stores the request
SetRequest ==
    /\ ui.pc = "set_request"
    /\ Free("state")
    /\ IF IsSome(state)
       THEN /\ ui' = [ pc |-> "idle", params |-> "",
                       ret |-> Some("Err:pending request"),
                       how |-> "failed" ]
            /\ UNCHANGED state
       ELSE /\ state' = Some(PushState(ui.params))
            /\ ui' = [ ui EXCEPT !.pc = "set_progress" ]
    /\ UNCHANGED << last_result, progress, notifs, workers, relays,
                    nSpawned, lastFinal >>
    /\ UNCHANGED << locks, slotOp, rebaseVars >>

\* (variant: request() leaves the slot as the last operation left it)
RequestResetProgressSkips ==
    /\ ui.pc = "set_progress"
    /\ Free("progress")
    /\ ui' = [ ui EXCEPT !.pc = "spawn" ]
    /\ UNCHANGED << state, last_result, progress, notifs, workers, relays,
                    nSpawned, lastFinal >>
    /\ UNCHANGED << locks, slotOp, rebaseVars >>

\* RemoteProgress::set_progress(&self.progress, None)
RequestResetProgress ==
    /\ ui.pc = "set_progress"
    /\ Free("progress")
    /\ progress' = None
    /\ slotOp' = 0
    /\ ui' = [ ui EXCEPT !.pc = "spawn" ]
    /\ UNCHANGED << state, last_result, notifs, workers, relays,
                    nSpawned, lastFinal >>
    /\ UNCHANGED << locks, rebaseVars >>

\* thread::spawn(move || ...); Ok(())
RequestSpawn ==
    /\ ui.pc = "spawn"
    /\ nSpawned' = nSpawned + 1
    /\ workers' = [ workers EXCEPT ![nSpawned + 1] =
                      [ IdleWorker EXCEPT !.pc = "start",
                                          !.params = ui.params ] ]
    /\ ui' = [ pc |-> "idle", params |-> "", ret |-> Some("Ok"),
                how |-> "accepted" ]
    /\ UNCHANGED << state, last_result, progress, notifs, relays, lastFinal >>
    /\ UNCHANGED << locks, slotOp, rebaseVars >>

\* the UI event loop takes the next notification off its channel
UiReceive ==
    /\ notifs # << >>
    /\ notifs' = Tail(notifs)
    /\ lastFinal' = IF Head(notifs).final THEN Head(notifs).op ELSE lastFinal
    /\ UNCHANGED << state, last_result, progress, ui, workers, relays,
                    nSpawned >>
    /\ UNCHANGED << locks, slotOp, rebaseVars >>

\* ---- the worker thread
\* (variant: the worker releases the Operation State Cell when it starts)
WorkerStartClearsEarly(w) ==
    /\ workers[w].pc = "start"
    /\ Free("state")
    /\ workers' = [ workers EXCEPT ![w].pc = "push" ]
    /\ relays' = [ relays EXCEPT ![w].pc = "recv" ]
    /\ state' = None
    /\ UNCHANGED << last_result, progress, notifs, ui, nSpawned, lastFinal >>
    /\ UNCHANGED << locks, slotOp, rebaseVars >>

\* unbounded(); RemoteProgress::spawn_receiver_thread(...)
\* (variant: the worker takes the state mutex and keeps the guard while it
\* runs the push)
WorkerStartHoldsLock(w) ==
    /\ workers[w].pc = "start"
    /\ Free("state")
    /\ locks' = [ locks EXCEPT !.state = "worker" ]
    /\ workers' = [ workers EXCEPT ![w].pc = "push" ]
    /\ relays' = [ relays EXCEPT ![w].pc = "recv" ]
    /\ UNCHANGED << state, last_result, progress, notifs, ui, nSpawned,
                    lastFinal >>
    /\ UNCHANGED << slotOp, rebaseVars >>

\* the spawned closure: creates the channel and spawns the relay, holding no
\* mutex
WorkerStart(w) ==
    /\ workers[w].pc = "start"
    /\ workers' = [ workers EXCEPT ![w].pc = "push" ]
    /\ relays' = [ relays EXCEPT ![w].pc = "recv" ]
    /\ UNCHANGED << state, last_result, progress, notifs, ui, nSpawned,
                    lastFinal >>
    /\ UNCHANGED << locks, slotOp, rebaseVars >>

\* push(...) streams one progress event into the Progress Channel
WorkerPushEmit(w) ==
    /\ workers[w].pc = "push"
    /\ workers[w].emitted < MaxEvents
    /\ workers' = [ workers EXCEPT
                      ![w].chan = Append(@, Transfer(workers[w].emitted + 1)),
                      ![w].sent = Append(@, Transfer(workers[w].emitted + 1)),
                      ![w].emitted = @ + 1 ]
    /\ UNCHANGED << state, last_result, progress, notifs, ui, relays,
                    nSpawned, lastFinal >>
    /\ UNCHANGED << locks, slotOp, rebaseVars >>

\* push(...) returns (its event counter is a local of the call)
WorkerPushReturn(w, res) ==
    /\ workers[w].pc = "push"
    /\ workers' = [ workers EXCEPT ![w].pc = "send_done", ![w].res = res,
                                   ![w].emitted = 0 ]
    /\ UNCHANGED << state, last_result, progress, notifs, ui, relays,
                    nSpawned, lastFinal >>
    /\ UNCHANGED << locks, slotOp, rebaseVars >>

\* (variant: the worker goes to the join without sending Done)
WorkerSendDoneOmitsDone(w) ==
    /\ workers[w].pc = "send_done"
    /\ workers' = [ workers EXCEPT ![w].pc = "join" ]
    /\ UNCHANGED << state, last_result, progress, notifs, ui, relays,
                    nSpawned, lastFinal >>
    /\ UNCHANGED << locks, slotOp, rebaseVars >>

\* (variant: the worker sends Done and goes on without joining the relay)
WorkerSendDoneSkipsJoin(w) ==
    /\ workers[w].pc = "send_done"
    /\ workers' = [ workers EXCEPT ![w].chan = Append(@, Done),
                                   ![w].sent = Append(@, Done),
                                   ![w].pc = "set_result" ]
    /\ UNCHANGED << state, last_result, progress, notifs, ui, relays,
                    nSpawned, lastFinal >>
    /\ UNCHANGED << locks, slotOp, rebaseVars >>

\* progress_sender.send(ProgressNotification::Done)
WorkerSendDone(w) ==
    /\ workers[w].pc = "send_done"
    /\ workers' = [ workers EXCEPT ![w].chan = Append(@, Done),
                                   ![w].sent = Append(@, Done),
                                   ![w].pc = "join" ]
    /\ UNCHANGED << state, last_result, progress, notifs, ui, relays,
                    nSpawned, lastFinal >>
    /\ UNCHANGED << locks, slotOp, rebaseVars >>

\* handle.join(): returns once the relay thread has terminated
\* (variant: the worker goes on without waiting for the relay to end)
WorkerJoinNoWait(w) ==
    /\ workers[w].pc = "join"
    /\ workers' = [ workers EXCEPT ![w].pc = "set_result",
                                   ![w].sent = << >> ]
    /\ relays' = [ relays EXCEPT ![w].written = << >> ]
    /\ UNCHANGED << state, last_result, progress, notifs, ui,
                    nSpawned, lastFinal >>
    /\ UNCHANGED << locks, slotOp, rebaseVars >>

\* join() returns once the relay thread has ended; the channel and the
\* relay's locals are gone then, and the two logs are dropped with them
WorkerJoin(w) ==
    /\ workers[w].pc = "join"
    /\ relays[w].pc = "done"
    /\ workers' = [ workers EXCEPT ![w].pc = "set_result",
                                   ![w].sent = << >> ]
    /\ relays' = [ relays EXCEPT ![w].written = << >> ]
    /\ UNCHANGED << state, last_result, progress, notifs, ui,
                    nSpawned, lastFinal >>
    /\ UNCHANGED << locks, slotOp, rebaseVars >>

\* set_result: the value the Result Cell takes for a push result
ResultValue(res) ==
    IF res.ok THEN None ELSE Some(ErrorToString(res.err))

\* (variant: a success leaves the previous result in place)
WorkerSetResultKeepsOld(w) ==
    /\ workers[w].pc = "set_result"
    /\ Free("last_result")
    /\ last_result' = IF workers[w].res.ok THEN last_result
                      ELSE Some(ErrorToString(workers[w].res.err))
    /\ workers' = [ workers EXCEPT ![w].pc = "clear_request" ]
    /\ UNCHANGED << state, progress, notifs, ui, relays, nSpawned, lastFinal >>
    /\ UNCHANGED << locks, slotOp, rebaseVars >>

WorkerSetResult(w) ==
    /\ workers[w].pc = "set_result"
    /\ Free("last_result")
    /\ last_result' = ResultValue(workers[w].res)
    /\ workers' = [ workers EXCEPT ![w].pc = "clear_request" ]
    /\ UNCHANGED << state, progress, notifs, ui, relays, nSpawned, lastFinal >>
    /\ UNCHANGED << locks, slotOp, rebaseVars >>

\* (variant: the completion notification goes out before the cell is cleared)
WorkerClearRequestNotifiesFirst(w) ==
    /\ workers[w].pc = "clear_request"
    /\ notifs' = Append(notifs, [ op |-> w, final |-> TRUE ])
    /\ workers' = [ workers EXCEPT ![w].pc = "notify" ]
    /\ UNCHANGED << state, last_result, progress, ui, relays, nSpawned,
                    lastFinal >>
    /\ UNCHANGED << locks, slotOp, rebaseVars >>

\* clear_request
WorkerClearRequest(w) ==
    /\ workers[w].pc = "clear_request"
    /\ Free("state")
    /\ state' = None
    /\ workers' = [ workers EXCEPT ![w].pc = "notify" ]
    /\ UNCHANGED << last_result, progress, notifs, ui, relays, nSpawned,
                    lastFinal >>
    /\ UNCHANGED << locks, slotOp, rebaseVars >>

\* sender.send(AsyncGitNotification::Push); the thread ends and its closure
\* (the captured params) is dropped; res is kept as the operation's outcome
WorkerNotify(w) ==
    /\ workers[w].pc = "notify"
    /\ notifs' = Append(notifs, Notification(w, TRUE))
    /\ workers' = [ workers EXCEPT ![w].pc = "done", ![w].params = "" ]
    /\ UNCHANGED << state, last_result, progress, ui, relays, nSpawned,
                    lastFinal >>
    /\ UNCHANGED << locks, slotOp, rebaseVars >>

\* ---- the relay thread (RemoteProgress::spawn_receiver_thread)
\* receiver.recv(): blocks until the channel holds a message
\* a receive that leaves the event in the channel
RelayRecvKeepsEvent(w) ==
    /\ relays[w].pc = "recv"
    /\ workers[w].chan # << >>
    /\ relays' = [ relays EXCEPT ![w].update = Head(workers[w].chan),
                                 ![w].pc = "set_progress" ]
    /\ UNCHANGED << state, last_result, progress, notifs, ui, workers,
                    nSpawned, lastFinal >>
    /\ UNCHANGED << locks, slotOp, rebaseVars >>

RelayRecv(w) ==
    /\ relays[w].pc = "recv"
    /\ workers[w].chan # << >>
    /\ relays' = [ relays EXCEPT ![w].update = Head(workers[w].chan),
                                 ![w].pc = "set_progress" ]
    /\ workers' = [ workers EXCEPT ![w].chan = Tail(@) ]
    /\ UNCHANGED << state, last_result, progress, notifs, ui, nSpawned,
                    lastFinal >>
    /\ UNCHANGED << locks, slotOp, rebaseVars >>

\* set_progress(&progress, Some(update))
RelaySetProgress(w) ==
    /\ relays[w].pc = "set_progress"
    /\ Free("progress")
    /\ progress' = Some(relays[w].update)
    /\ slotOp' = w
    /\ relays' = [ relays EXCEPT ![w].written = Append(@, relays[w].update),
                                 ![w].pc = "notify" ]
    /\ UNCHANGED << state, last_result, notifs, ui, workers, nSpawned,
                    lastFinal >>
    /\ UNCHANGED << locks, rebaseVars >>

\* sender.send(notification_type); break on the Done sentinel
RelayNotify(w) ==
    /\ relays[w].pc = "notify"
    /\ notifs' = Append(notifs, Notification(w, FALSE))
    /\ relays' = [ relays EXCEPT ![w].pc =
                     IF is_done(relays[w].update) THEN "done" ELSE "recv" ]
    /\ UNCHANGED << state, last_result, progress, ui, workers, nSpawned,
                    lastFinal >>
    /\ UNCHANGED << locks, slotOp, rebaseVars >>

NextPush ==
    \/ \E params \in PushRequests : RequestCheck(params)
    \/ SetRequest
    \/ RequestResetProgress
    \/ RequestSpawn
    \/ UiReceive
    \/ \E w \in Workers : WorkerStart(w)
    \/ \E w \in Workers : WorkerPushEmit(w)
    \/ \E w \in Workers, res \in PushResults : WorkerPushReturn(w, res)
    \/ \E w \in Workers : WorkerSendDone(w)
    \/ \E w \in Workers : WorkerJoin(w)
    \/ \E w \in Workers : WorkerSetResult(w)
    \/ \E w \in Workers : WorkerClearRequest(w)
    \/ \E w \in Workers : WorkerNotify(w)
    \/ \E w \in Workers : RelayRecv(w)
    \/ \E w \in Workers : RelaySetProgress(w)
    \/ \E w \in Workers : RelayNotify(w)


\* =====================================================================
\*                   Rebase engine  (sync/rebase.rs)
\* =====================================================================
\* The repository and its on-disk rebase object are those of the git2
\* binding.  Commits are numbered; parents[c] is the parent of commit c (0 for
\* the root).  The repository of the tests: commit 1, the target branch with
\* commit 2 on top of it, and the checked-out branch with its own commits on
\* top of commit 1.

\* ---- the git2 binding
\* next(), commit() and finish() can fail; a failed call leaves the
\* repository as it was.  abort() and reading the index are taken to succeed.
RECURSIVE Ancestors(_, _)
\* the commits reachable from c (c included)
Ancestors(parents, c) ==
    IF c = 0 THEN { } ELSE { c } \cup Ancestors(parents, parents[c])

RECURSIVE OperationsFrom(_, _, _)
\* the commits reachable from c and not in `hidden`, oldest first
OperationsFrom(parents, c, hidden) ==
    IF c = 0 \/ c \in hidden THEN << >>
    ELSE Append(OperationsFrom(parents, parents[c], hidden), c)

\* repo.rebase(None, Some(upstream), None, None): one operation per commit of
\* HEAD's branch that upstream does not have; HEAD is detached at upstream
git_rebase_init(r, upstream) ==
    [ r EXCEPT
        !.rb = Some([ ops |-> OperationsFrom(r.parents, r.head,
                                             Ancestors(r.parents, upstream)),
                      msgnum |-> 0,
                      orig_head |-> r.head,
                      onto |-> upstream ]),
        !.head = upstream,
        !.detached = TRUE ]

\* rebase.next() when an operation is left: advance to it and apply its
\* changes to the index, which may leave conflicts there
git_rebase_next(r, conflicts) ==
    [ r EXCEPT
        !.rb = Some([ Unwrap(r.rb) EXCEPT !.msgnum = @ + 1 ]),
        !.index_conflict =
            Unwrap(r.rb).ops[Unwrap(r.rb).msgnum + 1] \in conflicts ]

\* the identifier rebase.commit() gives the commit it creates
NewCommitId(r) == Len(r.parents) + 1

\* rebase.commit(): a new commit on top of HEAD, HEAD moves to it
git_rebase_commit(r) ==
    [ r EXCEPT !.parents = Append(@, r.head),
               !.head = NewCommitId(r) ]

\* rebase.abort(): HEAD and branch back to the original head, index and
\* working tree reset, the rebase removed from disk
git_rebase_abort(r) ==
    [ r EXCEPT !.head = Unwrap(r.rb).orig_head,
               !.branch = Unwrap(r.rb).orig_head,
               !.detached = FALSE,
               !.index_conflict = FALSE,
               !.rb = None ]

\* rebase.finish(): the branch moves to the rebased HEAD, HEAD is attached
\* to it again, the rebase is removed from disk
git_rebase_finish(r) ==
    [ r EXCEPT !.branch = r.head,
               !.detached = FALSE,
               !.rb = None ]

\* rebase.len()
rebase_len(r) == Len(Unwrap(r.rb).ops)

\* rebase.operation_current(): None until next() was called once
operation_current(r) ==
    IF Unwrap(r.rb).msgnum = 0 THEN None ELSE Some(Unwrap(r.rb).msgnum - 1)

\* Option::unwrap_or_default for usize
unwrap_or_default(o) == IF IsSome(o) THEN Unwrap(o) ELSE 0

\* repo.index()?.has_conflicts()
has_conflicts(r) == r.index_conflict

\* repo_state(): Rebase while a rebase is open on disk
repo_state(r) == IF IsSome(r.rb) THEN "Rebase" ELSE "Clean"

\* ---- values the functions return
\* Result<CommitId>, Result<RebaseState>, Result<RebaseProgress>, Result<()>
NoRet == [ tag |-> "none", id |-> 0, steps |-> 0, current |-> 0 ]
RetOk == [ NoRet EXCEPT !.tag = "Ok" ]
RetCommit(c) == [ NoRet EXCEPT !.tag = "Ok", !.id = c ]
RetState(st) == [ NoRet EXCEPT !.tag = st ]
RetProgress(n, i) == [ NoRet EXCEPT !.tag = "Ok", !.steps = n, !.current = i ]
\* Error::RebaseConflict, Error::Git(_), Error::Generic("no commit rebased")
RetErr(e) == [ NoRet EXCEPT !.tag = e ]

IdleCall ==
    [ fn |-> "none", pc |-> "idle", last_commit |-> None, ret |-> NoRet,
      pre |-> [ head |-> 0, branch |-> 0 ], synth |-> << >> ]

\* a call of fn begins: its locals, and what the repository looked like
BeginCall(fn, pc) ==
    [ fn |-> fn, pc |-> pc, last_commit |-> None, ret |-> NoRet,
      pre |-> [ head |-> repo.head, branch |-> repo.branch ],
      synth |-> << >> ]

\* the call returns ret
Return(c, ret) == [ c EXCEPT !.pc = "idle", !.ret = ret ]

Snapshot(r) ==
    [ head |-> r.head, branch |-> r.branch, commits |-> Len(r.parents) ]

\* the repository of the tests with n commits on the checked-out branch
TestRepo(n) ==
    [ parents |-> << 0, 1 >> \o [ i \in 1..n |-> IF i = 1 THEN 1 ELSE i + 1 ],
      head |-> IF n = 0 THEN 1 ELSE n + 2,
      branch |-> IF n = 0 THEN 1 ELSE n + 2,
      detached |-> FALSE,
      index_conflict |-> FALSE,
      rb |-> None ]

InitRebase ==
    /\ \E n \in 0..MaxSteps :
         /\ repo = TestRepo(n)
         /\ conflicting \in SUBSET (3..(n + 2))
    /\ target = 2
    /\ call = IdleCall
    /\ nCalls = 0
    /\ preRebase = Snapshot(TestRepo(0))

CanCall == call.pc = "idle" /\ nCalls < MaxCalls

\* ---- conflict_free_rebase
\* repo.rebase(..)? fails when a rebase is already open on disk and then
\* changes nothing; the signature falls back to a permissive one
CfrOpen ==
    /\ CanCall
    /\ nCalls' = nCalls + 1
    /\ IF IsSome(repo.rb)
       THEN /\ call' = Return(BeginCall("conflict_free_rebase", "idle"),
                              RetErr("Git"))
            /\ UNCHANGED << repo, preRebase >>
       ELSE /\ repo' = git_rebase_init(repo, target)
            /\ preRebase' = Snapshot(repo)
            /\ call' = BeginCall("conflict_free_rebase", "cfr_next")
    /\ UNCHANGED << target, conflicting >>
    /\ UNCHANGED pushVars

\* (variant: the step is committed without checking the index)
CfrNextSkipsCheck(ok) ==
    /\ call.pc = "cfr_next"
    /\ IF Unwrap(repo.rb).msgnum = rebase_len(repo)
       THEN /\ call' = [ call EXCEPT !.pc = "cfr_postcheck" ]
            /\ UNCHANGED repo
       ELSE IF ok
            THEN /\ repo' = git_rebase_next(repo, conflicting)
                 /\ call' = [ call EXCEPT !.pc = "cfr_commit" ]
            ELSE /\ call' = Return(call, RetErr("Git"))
                 /\ UNCHANGED repo
    /\ UNCHANGED << target, conflicting, nCalls, preRebase >>
    /\ UNCHANGED pushVars

\* `while let Some(op) = rebase.next() { let _op = op?;`
CfrNext(ok) ==
    /\ call.pc = "cfr_next"
    /\ IF Unwrap(repo.rb).msgnum = rebase_len(repo)
       THEN /\ call' = [ call EXCEPT !.pc = "cfr_postcheck" ]
            /\ UNCHANGED repo
       ELSE IF ok
            THEN /\ repo' = git_rebase_next(repo, conflicting)
                 /\ call' = [ call EXCEPT !.pc = "cfr_check" ]
            ELSE /\ call' = Return(call, RetErr("Git"))
                 /\ UNCHANGED repo
    /\ UNCHANGED << target, conflicting, nCalls, preRebase >>
    /\ UNCHANGED pushVars

\* (variant: a conflict is reported without aborting the rebase)
CfrCheckNoAbort ==
    /\ call.pc = "cfr_check"
    /\ IF has_conflicts(repo)
       THEN /\ call' = Return(call, RetErr("RebaseConflict"))
            /\ UNCHANGED repo
       ELSE /\ call' = [ call EXCEPT !.pc = "cfr_commit" ]
            /\ UNCHANGED repo
    /\ UNCHANGED << target, conflicting, nCalls, preRebase >>
    /\ UNCHANGED pushVars

\* `if repo.index()?.has_conflicts() { rebase.abort()?; return Err(..) }`
CfrCheck ==
    /\ call.pc = "cfr_check"
    /\ IF has_conflicts(repo)
       THEN /\ repo' = git_rebase_abort(repo)
            /\ call' = Return(call, RetErr("RebaseConflict"))
       ELSE /\ call' = [ call EXCEPT !.pc = "cfr_commit" ]
            /\ UNCHANGED repo
    /\ UNCHANGED << target, conflicting, nCalls, preRebase >>
    /\ UNCHANGED pushVars

\* (variant: only the first synthesized commit is remembered)
CfrCommitKeepsFirst(ok) ==
    /\ call.pc = "cfr_commit"
    /\ IF ok
       THEN /\ repo' = git_rebase_commit(repo)
            /\ call' = [ call EXCEPT
                           !.last_commit = IF IsSome(@) THEN @
                                           ELSE Some(NewCommitId(repo)),
                           !.synth = Append(@, NewCommitId(repo)),
                           !.pc = "cfr_next" ]
       ELSE /\ call' = Return(call, RetErr("Git"))
            /\ UNCHANGED repo
    /\ UNCHANGED << target, conflicting, nCalls, preRebase >>
    /\ UNCHANGED pushVars

\* `let c = rebase.commit(None, &signature, None)?; last_commit = Some(c)`
CfrCommit(ok) ==
    /\ call.pc = "cfr_commit"
    /\ IF ok
       THEN /\ repo' = git_rebase_commit(repo)
            /\ call' = [ call EXCEPT
                           !.last_commit = Some(NewCommitId(repo)),
                           !.synth = Append(@, NewCommitId(repo)),
                           !.pc = "cfr_next" ]
       ELSE /\ call' = Return(call, RetErr("Git"))
            /\ UNCHANGED repo
    /\ UNCHANGED << target, conflicting, nCalls, preRebase >>
    /\ UNCHANGED pushVars

\* the check after the loop
CfrPostCheck ==
    /\ call.pc = "cfr_postcheck"
    /\ IF has_conflicts(repo)
       THEN /\ repo' = git_rebase_abort(repo)
            /\ call' = Return(call, RetErr("RebaseConflict"))
       ELSE /\ call' = [ call EXCEPT !.pc = "cfr_finish" ]
            /\ UNCHANGED repo
    /\ UNCHANGED << target, conflicting, nCalls, preRebase >>
    /\ UNCHANGED pushVars

\* (variant: with no commit rebased the target's id is returned)
CfrFinishReturnsTarget(ok) ==
    /\ call.pc = "cfr_finish"
    /\ IF ok
       THEN /\ repo' = git_rebase_finish(repo)
            /\ call' = Return(call,
                              IF IsSome(call.last_commit)
                              THEN RetCommit(Unwrap(call.last_commit))
                              ELSE RetCommit(repo.head))
       ELSE /\ call' = Return(call, RetErr("Git"))
            /\ UNCHANGED repo
    /\ UNCHANGED << target, conflicting, nCalls, preRebase >>
    /\ UNCHANGED pushVars

\* `rebase.finish(Some(&signature))?; last_commit.ok_or_else(..)`
CfrFinish(ok) ==
    /\ call.pc = "cfr_finish"
    /\ IF ok
       THEN /\ repo' = git_rebase_finish(repo)
            /\ call' = Return(call,
                              IF IsSome(call.last_commit)
                              THEN RetCommit(Unwrap(call.last_commit))
                              ELSE RetErr("NoCommitRebased"))
       ELSE /\ call' = Return(call, RetErr("Git"))
            /\ UNCHANGED repo
    /\ UNCHANGED << target, conflicting, nCalls, preRebase >>
    /\ UNCHANGED pushVars

\* ---- rebase (the tolerant variant)
RbOpen ==
    /\ CanCall
    /\ nCalls' = nCalls + 1
    /\ IF IsSome(repo.rb)
       THEN /\ call' = Return(BeginCall("rebase", "idle"), RetErr("Git"))
            /\ UNCHANGED << repo, preRebase >>
       ELSE /\ repo' = git_rebase_init(repo, target)
            /\ preRebase' = Snapshot(repo)
            /\ call' = BeginCall("rebase", "rb_next")
    /\ UNCHANGED << target, conflicting >>
    /\ UNCHANGED pushVars

\* (variant: the tolerant rebase commits a step without checking the index)
RbNextSkipsCheck(ok) ==
    /\ call.pc = "rb_next"
    /\ IF Unwrap(repo.rb).msgnum = rebase_len(repo)
       THEN /\ call' = [ call EXCEPT !.pc = "rb_postcheck" ]
            /\ UNCHANGED repo
       ELSE IF ok
            THEN /\ repo' = git_rebase_next(repo, conflicting)
                 /\ call' = [ call EXCEPT !.pc = "rb_commit" ]
            ELSE /\ call' = Return(call, RetErr("Git"))
                 /\ UNCHANGED repo
    /\ UNCHANGED << target, conflicting, nCalls, preRebase >>
    /\ UNCHANGED pushVars

\* `while let Some(op) = rebase.next() { let _op = op?;`
RbNext(ok) ==
    /\ call.pc = "rb_next"
    /\ IF Unwrap(repo.rb).msgnum = rebase_len(repo)
       THEN /\ call' = [ call EXCEPT !.pc = "rb_postcheck" ]
            /\ UNCHANGED repo
       ELSE IF ok
            THEN /\ repo' = git_rebase_next(repo, conflicting)
                 /\ call' = [ call EXCEPT !.pc = "rb_check" ]
            ELSE /\ call' = Return(call, RetErr("Git"))
                 /\ UNCHANGED repo
    /\ UNCHANGED << target, conflicting, nCalls, preRebase >>
    /\ UNCHANGED pushVars

\* (variant: the tolerant rebase aborts on conflict like the strict one)
RbCheckAborts ==
    /\ call.pc = "rb_check"
    /\ IF has_conflicts(repo)
       THEN /\ repo' = git_rebase_abort(repo)
            /\ call' = Return(call, RetState("Conflicted"))
       ELSE /\ call' = [ call EXCEPT !.pc = "rb_commit" ]
            /\ UNCHANGED repo
    /\ UNCHANGED << target, conflicting, nCalls, preRebase >>
    /\ UNCHANGED pushVars

\* `if repo.index()?.has_conflicts() { return Ok(RebaseState::Conflicted) }`
RbCheck ==
    /\ call.pc = "rb_check"
    /\ call' = IF has_conflicts(repo)
               THEN Return(call, RetState("Conflicted"))
               ELSE [ call EXCEPT !.pc = "rb_commit" ]
    /\ UNCHANGED << repo, target, conflicting, nCalls, preRebase >>
    /\ UNCHANGED pushVars

\* `rebase.commit(None, &signature, None)?;`
RbCommit(ok) ==
    /\ call.pc = "rb_commit"
    /\ IF ok
       THEN /\ repo' = git_rebase_commit(repo)
            /\ call' = [ call EXCEPT !.synth = Append(@, NewCommitId(repo)),
                                     !.pc = "rb_next" ]
       ELSE /\ call' = Return(call, RetErr("Git"))
            /\ UNCHANGED repo
    /\ UNCHANGED << target, conflicting, nCalls, preRebase >>
    /\ UNCHANGED pushVars

RbPostCheck ==
    /\ call.pc = "rb_postcheck"
    /\ call' = IF has_conflicts(repo)
               THEN Return(call, RetState("Conflicted"))
               ELSE [ call EXCEPT !.pc = "rb_finish" ]
    /\ UNCHANGED << repo, target, conflicting, nCalls, preRebase >>
    /\ UNCHANGED pushVars

\* `rebase.finish(Some(&signature))?; Ok(RebaseState::Finished)`
RbFinish(ok) ==
    /\ call.pc = "rb_finish"
    /\ IF ok
       THEN /\ repo' = git_rebase_finish(repo)
            /\ call' = Return(call, RetState("Finished"))
       ELSE /\ call' = Return(call, RetErr("Git"))
            /\ UNCHANGED repo
    /\ UNCHANGED << target, conflicting, nCalls, preRebase >>
    /\ UNCHANGED pushVars

\* ---- get_rebase_progress
\* RebaseProgress { steps: rebase.len(), current: operation_current()... }
RebaseProgressOf(r) ==
    RetProgress(rebase_len(r), unwrap_or_default(operation_current(r)))

\* (variant: no open rebase is reported as an empty progress)
GetRebaseProgressDefaults ==
    /\ CanCall
    /\ nCalls' = nCalls + 1
    /\ call' = Return(BeginCall("get_rebase_progress", "idle"),
                      IF IsSome(repo.rb) THEN RebaseProgressOf(repo)
                      ELSE RetProgress(0, 0))
    /\ UNCHANGED << repo, target, conflicting, preRebase >>
    /\ UNCHANGED pushVars

\* `let mut rebase = repo.open_rebase(None)?;` fails when none is open
GetRebaseProgress ==
    /\ CanCall
    /\ nCalls' = nCalls + 1
    /\ call' = Return(BeginCall("get_rebase_progress", "idle"),
                      IF IsSome(repo.rb) THEN RebaseProgressOf(repo)
                      ELSE RetErr("Git"))
    /\ UNCHANGED << repo, target, conflicting, preRebase >>
    /\ UNCHANGED pushVars

\* ---- abort_rebase
\* (variant: nothing to abort is not an error)
AbortRebaseLenient ==
    /\ CanCall
    /\ nCalls' = nCalls + 1
    /\ IF IsSome(repo.rb)
       THEN /\ repo' = git_rebase_abort(repo)
            /\ call' = Return(BeginCall("abort_rebase", "idle"), RetOk)
       ELSE /\ call' = Return(BeginCall("abort_rebase", "idle"), RetOk)
            /\ UNCHANGED repo
    /\ UNCHANGED << target, conflicting, preRebase >>
    /\ UNCHANGED pushVars

\* `let mut rebase = repo.open_rebase(None)?; rebase.abort()?;`
AbortRebase ==
    /\ CanCall
    /\ nCalls' = nCalls + 1
    /\ IF IsSome(repo.rb)
       THEN /\ repo' = git_rebase_abort(repo)
            /\ call' = Return(BeginCall("abort_rebase", "idle"), RetOk)
       ELSE /\ call' = Return(BeginCall("abort_rebase", "idle"),
                              RetErr("Git"))
            /\ UNCHANGED repo
    /\ UNCHANGED << target, conflicting, preRebase >>
    /\ UNCHANGED pushVars

NextRebase ==
    \/ CfrOpen
    \/ \E ok \in BOOLEAN : CfrNext(ok)
    \/ CfrCheck
    \/ \E ok \in BOOLEAN : CfrCommit(ok)
    \/ CfrPostCheck
    \/ \E ok \in BOOLEAN : CfrFinish(ok)
    \/ RbOpen
    \/ \E ok \in BOOLEAN : RbNext(ok)
    \/ RbCheck
    \/ \E ok \in BOOLEAN : RbCommit(ok)
    \/ RbPostCheck
    \/ \E ok \in BOOLEAN : RbFinish(ok)
    \/ GetRebaseProgress
    \/ AbortRebase

\* =====================================================================
\*                          Specifications
\* =====================================================================
vars == << pushVars, rebaseVars >>

\* no rebase function is called while the push controller is exercised
InitRepoIdle ==
    /\ repo = TestRepo(1)
    /\ conflicting = { }
    /\ target = 2
    /\ call = IdleCall
    /\ nCalls = 0
    /\ preRebase = Snapshot(TestRepo(0))

Init == InitPush /\ InitRepoIdle

Spec == Init /\ [][NextPush]_vars

\* Scheduling: a thread that can take its next step eventually takes it.
\* That covers the steps of request() once the owner is inside it, every
\* step of a worker and of a relay, and the return of the blocking push;
\* the owner is not obliged to call request() or to read the notifier, and
\* push is not obliged to report progress.
PushFairness ==
    /\ WF_vars(SetRequest)
    /\ WF_vars(RequestResetProgress)
    /\ WF_vars(RequestSpawn)
    /\ \A w \in Workers :
           /\ WF_vars(WorkerStart(w))
           /\ WF_vars(\E res \in PushResults : WorkerPushReturn(w, res))
           /\ WF_vars(WorkerSendDone(w))
           /\ WF_vars(WorkerJoin(w))
           /\ WF_vars(WorkerSetResult(w))
           /\ WF_vars(WorkerClearRequest(w))
           /\ WF_vars(WorkerNotify(w))
           /\ WF_vars(RelayRecv(w))
           /\ WF_vars(RelaySetProgress(w))
           /\ WF_vars(RelayNotify(w))

SpecLive == Spec /\ PushFairness

InitR == InitPush /\ InitRebase

SpecRebase == InitR /\ [][NextRebase]_vars

\* =====================================================================
\*                     Properties of AsyncPush
\* =====================================================================

\* a worker thread that exists: spawned and not yet returned
Alive(w) == workers[w].pc \notin { "unspawned", "done" }

\* a worker that has not yet executed its completion step clear_request
Active(w) ==
    workers[w].pc \in { "start", "push", "send_done", "join", "set_result",
                        "clear_request" }

\* what last_result() must show for the outcome of operation w
ShowsOutcome(w) ==
    IF workers[w].res.ok
    THEN last_result = None
    ELSE /\ IsSome(last_result)
         /\ Unwrap(last_result) # ""
         /\ Unwrap(last_result) = ErrorToString(workers[w].res.err)

\* the final notification of operation w has been sent
FinalSent(w) ==
    \/ lastFinal = w
    \/ \E i \in DOMAIN notifs : notifs[i].final /\ notifs[i].op = w

\* C1 as stated: at most one worker thread is alive at any time.
C1_AtMostOneAlive ==
    Cardinality({ w \in Workers : Alive(w) }) <= 1

\* C1 amended: at most one worker at a time is between its spawn and its
\* completion step clear_request; while it is, the Operation State Cell is
\* Some and holds that worker's request; a worker exists only for a request
\* that set the cell. (A worker that has cleared the cell may still be alive,
\* about to send its final notification, when the next worker is spawned.)
C1_AtMostOneActive ==
    /\ Cardinality({ w \in Workers : Active(w) }) <= 1
    /\ \A w \in Workers :
         Active(w) => state = Some(PushState(workers[w].params))
    /\ ui.pc \in { "set_progress", "spawn" } =>
         /\ \A w \in Workers : ~Active(w)
         /\ state = Some(PushState(ui.params))

C1_Witness ==
    /\ workers[1].pc = "notify"
    /\ Active(2)
    /\ workers[2].pc = "push"

\* C2: a request() made while is_pending() is true returns Ok and changes
\* nothing: the three cells, the threads and the notifier are untouched and
\* the owner does not go on to set_request or spawn (the request is dropped,
\* not queued).
C2_PendingRequestIsNoOp ==
    [][ (ui.pc = "idle" /\ is_pending /\ ui' # ui) =>
          /\ ui'.pc = "idle"
          /\ ui'.ret = Some("Ok")
          /\ ui'.params = ""
          /\ UNCHANGED << state, last_result, progress, notifs, workers,
                          relays, nSpawned >> ]_vars

C2_Witness ==
    /\ ui.how = "dropped"
    /\ ui.ret = Some("Ok")
    /\ is_pending
    /\ nSpawned = 1
    /\ workers[1].pc = "push"

\* C3: once a worker has finished an operation and is_pending() is false,
\* last_result() is None if that push succeeded and Some(non-empty message of
\* its error) if it failed, whatever an earlier operation left there.
C3_ResultOfLastOperation ==
    (~is_pending /\ nSpawned >= 1) =>
        /\ workers[nSpawned].pc \in { "notify", "done" }
        /\ ShowsOutcome(nSpawned)

C3_Witness ==
    /\ nSpawned = 2
    /\ ~is_pending
    /\ ~workers[1].res.ok
    /\ workers[2].res.ok
    /\ workers[2].pc = "done"
    /\ last_result = None

\* C4 as stated: a poll the UI makes on receiving the final notification of
\* an operation sees is_pending() false and that operation's outcome.
C4_PollAfterFinal ==
    [][ lastFinal' # lastFinal =>
          (~is_pending /\ ShowsOutcome(lastFinal))' ]_vars

\* C4 amended: the final notification of an operation is sent after the
\* Result Cell was written and the Operation State Cell was cleared, so a
\* poll made after it was sent (or received), and before the owner has had
\* another request accepted, sees is_pending() false and that outcome.
C4_FinalAfterUpdates ==
    \A w \in Workers :
       FinalSent(w) =>
          /\ workers[w].pc = "done"
          /\ nAccepted = w => (~is_pending /\ ShowsOutcome(w))

C4_Witness ==
    /\ lastFinal = 1
    /\ nAccepted = 1
    /\ ~workers[1].res.ok
    /\ notifs = << >>

\* =====================================================================
\*                   Properties of the rebase engine
\* =====================================================================

\* the last call was of fn and has returned
Returned(c, fn) == c.fn = fn /\ c.pc = "idle"

\* the steps a rebase of the branch at `head` onto the target has
StepsFrom(r, head) ==
    OperationsFrom(r.parents, head, Ancestors(r.parents, target))

\* repository r is as it was when call c began: same HEAD on the same
\* branch, clean index, no rebase open, none of c's commits reachable
RestoredFor(r, c) ==
    /\ r.rb = None
    /\ repo_state(r) = "Clean"
    /\ r.head = c.pre.head
    /\ r.branch = c.pre.branch
    /\ ~r.detached
    /\ ~r.index_conflict
    /\ \A i \in DOMAIN c.synth : c.synth[i] \notin Ancestors(r.parents, r.head)

C6_CleanOnEveryReturn ==
    Returned(call, "conflict_free_rebase") =>
        /\ repo.rb = None
        /\ call.ret.tag # "Ok" => (repo.head = call.pre.head /\ ~repo.detached)

\* C7: when conflict_free_rebase returns a commit, the rebase had n >= 1
\* steps, all were committed, the rebase is finalized (closed, branch and
\* HEAD on the returned commit), the returned commit is the one synthesized
\* for the last step, and the synthesized commits form a chain in step order
\* starting on the target commit; with n >= 1 conflict-free steps the call
\* fails only if the binding fails.
C7_ReturnsLastOfLinearChain ==
    Returned(call, "conflict_free_rebase") =>
        LET n == Len(call.synth)
            steps == StepsFrom(repo, call.pre.head)
        IN  /\ call.ret.tag = "Ok" =>
                /\ n >= 1
                /\ n = Len(steps)
                /\ call.ret.id = call.synth[n]
                /\ repo.parents[call.synth[1]] = target
                /\ \A i \in 1..(n - 1) :
                      repo.parents[call.synth[i + 1]] = call.synth[i]
                /\ repo.rb = None
                /\ repo.head = call.ret.id
                /\ repo.branch = call.ret.id
                /\ ~repo.detached
            /\ (Len(steps) >= 1
                  /\ \A i \in DOMAIN steps : steps[i] \notin conflicting)
               => call.ret.tag \in { "Ok", "Git" }

C7_Witness ==
    /\ Returned(call, "conflict_free_rebase")
    /\ call.ret.tag = "Ok"
    /\ Len(call.synth) = 2
    /\ call.ret.id = call.synth[2]

\* C8: when the tolerant rebase finds the index conflicted after advancing
\* to step i (0-based) of n, it returns Conflicted with the rebase left open
\* (repository state Rebase, nothing aborted or finalized), and a
\* get_rebase_progress called next returns {steps: n, current: i}.
C8_ConflictedLeavesRebaseOpen ==
    [][ /\ (call.pc \in { "rb_check", "rb_postcheck" } /\ has_conflicts(repo))
           => /\ Returned(call', "rebase")
              /\ call'.ret.tag = "Conflicted"
        /\ (Returned(call', "rebase") /\ call'.ret.tag = "Conflicted")
           => /\ IsSome(repo'.rb)
              /\ repo_state(repo') = "Rebase"
              /\ repo'.detached
              /\ Len(Unwrap(repo'.rb).ops)
                   = Len(StepsFrom(repo', call'.pre.head))
              /\ Unwrap(repo'.rb).ops[Len(call'.synth) + 1] \in conflicting
        /\ (Returned(call, "rebase") /\ call.ret.tag = "Conflicted"
              /\ call'.fn = "get_rebase_progress")
           => call'.ret = [ tag |-> "Ok", id |-> 0,
                            steps |-> Len(StepsFrom(repo, call.pre.head)),
                            current |-> Len(call.synth) ] ]_vars

C8_Witness ==
    /\ Returned(call, "get_rebase_progress")
    /\ call.ret.tag = "Ok"
    /\ call.ret.steps = 2
    /\ call.ret.current = 1
    /\ repo_state(repo) = "Rebase"
    /\ repo.index_conflict

\* a step that is a call of fn made from idle
CallOf(fn) == call.pc = "idle" /\ nCalls' = nCalls + 1 /\ call'.fn = fn

C10_ProgressFailsWithoutRebase ==
    [][ CallOf("get_rebase_progress") =>
          /\ repo' = repo
          /\ ( \/ repo.rb = None
               \/ call.fn \in { "none", "abort_rebase", "conflict_free_rebase" }
               \/ (call.fn = "rebase" /\ call.ret.tag = "Finished") )
             => call'.ret.tag = "Git" ]_vars

\* C10, the part that holds: get_rebase_progress changes nothing, returns an
\* error exactly when no rebase is open on disk, and none is open before any
\* rebase, after a Finished rebase and after abort_rebase.
C10_ProgressFailsIffNoneOpen ==
    [][ CallOf("get_rebase_progress") =>
          /\ repo' = repo
          /\ (repo.rb = None) <=> (call'.ret.tag = "Git")
          /\ ( \/ call.fn \in { "none", "abort_rebase" }
               \/ (call.fn = "rebase" /\ call.ret.tag = "Finished") )
             => repo.rb = None ]_vars


\* =====================================================================
\* AsyncPush: the progress stream, the locks and the rendezvous
\* =====================================================================

\* the event the relay has received and not yet stored
InTransit(w) ==
    IF relays[w].pc = "set_progress" THEN << relays[w].update >> ELSE << >>

\* the worker of operation w is between spawning its relay and joining it
Streaming(w) == workers[w].pc \in { "push", "send_done", "join" }

\* C11: during one operation the values written to the Shared Progress Slot
\* are, in order and each exactly once, the events the worker put into the
\* channel (what is written, then what is held, then what is queued is what
\* was sent); Done is sent only as the last event, and a relay that has
\* ended wrote the whole stream, Done last.
C11_SlotGetsEventsInOrder ==
    \A w \in Workers :
        Streaming(w) =>
            LET sent == workers[w].sent
                written == relays[w].written
            IN  /\ written \o InTransit(w) \o workers[w].chan = sent
                /\ \A i \in DOMAIN sent :
                       IF is_done(sent[i])
                       THEN i = Len(sent) /\ workers[w].pc = "join"
                       ELSE sent[i] = Transfer(i)
                /\ workers[w].pc = "join" =>
                       sent # << >> /\ is_done(sent[Len(sent)])
                /\ relays[w].pc = "done" =>
                       /\ workers[w].pc = "join"
                       /\ written = sent
                       /\ progress = Some(Done)

\* a relay ended after writing a progress event and then Done
C11_Witness ==
    \E w \in Workers :
        /\ workers[w].pc = "join"
        /\ relays[w].pc = "done"
        /\ relays[w].written = << Transfer(1), Done >>


\* C12: request() returns Ok whatever the push does: its return value is
\* never an error, the failing branch of set_request is never taken because
\* the cell is still empty when set_request runs, and a push that failed is
\* visible only in the Result Cell.
C12_RequestReturnsNoError ==
    /\ ui.ret \in { None, Some("Ok") }
    /\ ui.how # "failed"
    /\ ui.pc = "set_request" => state = None
    /\ \A w \in Workers :
           (workers[w].pc = "clear_request" /\ ~workers[w].res.ok)
               => last_result = Some(ErrorToString(workers[w].res.err))

\* request() returned Ok for an operation whose push then failed
C12_Witness ==
    /\ ui.pc = "idle"
    /\ ui.how = "accepted"
    /\ ui.ret = Some("Ok")
    /\ nSpawned > 0
    /\ workers[nSpawned].pc = "done"
    /\ ~workers[nSpawned].res.ok
    /\ IsSome(last_result)


\* a thread is inside the blocking push call, the blocking channel receive
\* or the blocking join
InBlockingStep ==
    \E w \in Workers :
        \/ workers[w].pc \in { "push", "join" }
        \/ relays[w].pc = "recv"

TerminalProgress == Some(RemoteProgressFrom(Done))

\* C14 as stated: once the final notification of an operation has been
\* sent, progress() returns the terminal Done state.
C14_DoneAfterFinal ==
    \A w \in Workers : FinalSent(w) => progress_get = TerminalProgress

\* C14 amended: once the final notification of an operation has been sent,
\* and until the owner has had a further request accepted, progress()
\* returns the terminal Done state, written by that operation's relay.
C14_DoneUntilNextRequest ==
    \A w \in Workers :
        (FinalSent(w) /\ nAccepted = w) =>
            /\ progress_get = TerminalProgress
            /\ slotOp = w

\* the final notification of a successful operation has been received, no
\* further request was made, and progress() shows Done
C14_Witness ==
    /\ lastFinal = 1
    /\ nAccepted = 1
    /\ workers[1].res.ok
    /\ slotOp = 1
    /\ progress_get = TerminalProgress


\* the worker of operation w is past the join of its relay
PastJoin(w) ==
    workers[w].pc \in { "set_result", "clear_request", "notify", "done" }

\* C15: a worker that is at or past the write of the Result Cell has a
\* relay that has ended and a drained channel; so while is_pending() is
\* false no relay is running, no step that reads a channel or writes the
\* slot can be taken, and the slot holds the Done of the last operation
\* until an accepted request resets it.
C15_RelayEndedBeforeCompletion ==
    /\ \A w \in Workers :
           PastJoin(w) => (relays[w].pc = "done" /\ workers[w].chan = << >>)
    /\ ~is_pending =>
           /\ \A w \in Workers :
                  /\ relays[w].pc \in { "unspawned", "done" }
                  /\ workers[w].pc \in { "unspawned", "notify", "done" }
                  /\ ~ENABLED RelayRecv(w)
                  /\ ~ENABLED RelaySetProgress(w)
           /\ ~ENABLED RequestResetProgress
           /\ nSpawned > 0 => (progress = Some(Done) /\ slotOp = nSpawned)
           /\ nSpawned = 0 => progress = None

\* the cell was cleared after an operation whose relay ended, and the final
\* notification is still to be sent
C15_Witness ==
    /\ ~is_pending
    /\ ui.pc = "idle"
    /\ nSpawned = 1
    /\ workers[1].pc = "notify"
    /\ relays[1].pc = "done"
    /\ progress = Some(Done)


\* C20: when the owner, between two of its calls, sees is_pending() true,
\* the slot is empty or was written by the relay of the operation in flight
\* (and then holds the last event that relay stored); when request() resets
\* the slot and spawns the worker, every relay spawned before has ended.
C20_NoLeftoverProgress ==
    /\ (progress = None) <=> (slotOp = 0)
    /\ (ui.pc = "idle" /\ is_pending) =>
           /\ nSpawned > 0
           /\ Active(nSpawned)
           /\ slotOp \in { 0, nSpawned }
           /\ slotOp = nSpawned =>
                  LET written == relays[nSpawned].written
                  IN  progress = Some(IF PastJoin(nSpawned) THEN Done
                                      ELSE written[Len(written)])
    /\ ui.pc \in { "set_progress", "spawn" } =>
           \A w \in 1..nSpawned : relays[w].pc = "done" /\ PastJoin(w)

\* the owner is between calls during the second operation and the slot
\* holds a progress event of that operation
C20_Witness ==
    /\ ui.pc = "idle"
    /\ is_pending
    /\ nSpawned = 2
    /\ slotOp = 2
    /\ progress = Some(Transfer(1))


\* the request of operation w has been accepted and its cell is occupied
Accepted(w) == nAccepted = w /\ is_pending

\* C16: under fair scheduling and a push that returns, every accepted
\* request is followed by its relay ending with the cell cleared, and by its
\* worker ending after the final notification (the rendezvous does not
\* deadlock); from the clearing on, and until another request is accepted,
\* is_pending() is false, so the next request() is accepted.
C16_AcceptedRequestCompletes ==
    \A w \in Workers :
        /\ Accepted(w) ~> (~is_pending /\ relays[w].pc = "done"
                                       /\ workers[w].pc = "notify")
        /\ Accepted(w) ~> (workers[w].pc = "done" /\ relays[w].pc = "done")
        /\ [](( workers[w].pc \in { "notify", "done" } /\ nAccepted = w )
                  => ~is_pending)

\* a second request was accepted after the first operation, one operation
\* succeeded and the other failed, and both have ended
C16_Witness ==
    /\ nSpawned = 2
    /\ workers[1].pc = "done" /\ relays[1].pc = "done"
    /\ workers[2].pc = "done" /\ relays[2].pc = "done"
    /\ workers[1].res.ok
    /\ ~workers[2].res.ok
    /\ ~is_pending


\* =====================================================================
\* The rebase engine: the two variants side by side
\* =====================================================================

\* the position (from 1) of the first step whose changes conflict, 0 if none
FirstConflict(steps) ==
    IF \E i \in DOMAIN steps : steps[i] \in conflicting
    THEN CHOOSE i \in DOMAIN steps :
             /\ steps[i] \in conflicting
             /\ \A j \in 1..(i - 1) : steps[j] \notin conflicting
    ELSE 0

\* the rebase of the call was finalized on top of its synthesized commits
FinalizedFor(r, c) ==
    /\ r.rb = None
    /\ ~r.detached
    /\ r.branch = r.head
    /\ r.head = IF c.synth = << >> THEN target ELSE c.synth[Len(c.synth)]

\* C17: for a call of either variant that met no binding error, the outcome
\* is the same function of the repository and target it was run on: with k
\* the first conflicting step, both synthesize commits for the steps before
\* k and stop at k (rebase returns Conflicted and leaves the rebase open at
\* step k, conflict_free_rebase fails with RebaseConflict), and with no
\* conflicting step both synthesize every step and finalize (rebase
\* returns Finished).
C17_SameLoopInBothVariants ==
    ( call.pc = "idle" /\ call.fn \in { "rebase", "conflict_free_rebase" }
        /\ call.ret.tag # "Git" ) =>
        LET steps == StepsFrom(repo, call.pre.head)
            k == FirstConflict(steps)
            n == IF k > 0 THEN k - 1 ELSE Len(steps)
            tag == call.ret.tag
        IN  /\ Len(call.synth) = n
            /\ \A i \in 1..n :
                   repo.parents[call.synth[i]] =
                       IF i = 1 THEN target ELSE call.synth[i - 1]
            /\ call.fn = "rebase" =>
                   /\ tag \in { "Conflicted", "Finished" }
                   /\ (tag = "Conflicted") <=> (k > 0)
                   /\ k > 0 => (IsSome(repo.rb) /\ Unwrap(repo.rb).msgnum = k)
                   /\ k = 0 => FinalizedFor(repo, call)
            /\ call.fn = "conflict_free_rebase" =>
                   /\ tag \in { "RebaseConflict", "Ok", "NoCommitRebased" }
                   /\ (tag = "RebaseConflict") <=> (k > 0)
                   /\ k > 0 => RestoredFor(repo, call)
                   /\ k = 0 => FinalizedFor(repo, call)

\* the tolerant rebase stopped at a conflict in the second step, after
\* synthesizing the commit of the first, on the repository state a
\* conflict_free_rebase had restored before
C17_Witness ==
    /\ Returned(call, "rebase")
    /\ call.ret.tag = "Conflicted"
    /\ Len(call.synth) = 1
    /\ FirstConflict(StepsFrom(repo, call.pre.head)) = 2
    /\ nCalls = 2
    /\ preRebase.commits = Len(TestRepo(2).parents) + 1


\* C18: a conflict_free_rebase whose opened rebase has no steps returns,
\* unless a binding call fails, the Generic error "no commit rebased" and
\* never a commit id; it has synthesized nothing and has finalized the
\* rebase with HEAD at the target.  With at least one step that error is
\* never returned.
C18_EmptyRebaseIsAnError ==
    Returned(call, "conflict_free_rebase") =>
        LET steps == StepsFrom(repo, call.pre.head)
        IN  /\ (steps = << >> /\ call.ret.tag # "Git") =>
                   /\ call.ret.tag = "NoCommitRebased"
                   /\ call.ret.id = 0
                   /\ call.synth = << >>
                   /\ call.last_commit = None
                   /\ FinalizedFor(repo, call)
            /\ call.ret.tag = "NoCommitRebased" => steps = << >>

\* conflict_free_rebase of a branch that has nothing the target lacks
C18_Witness ==
    /\ Returned(call, "conflict_free_rebase")
    /\ call.ret.tag = "NoCommitRebased"
    /\ nCalls = 1
    /\ StepsFrom(repo, call.pre.head) = << >>
    /\ repo.head = target


\* the step taken creates a commit / closes the open rebase
CommitSynthesized == Len(repo'.parents) > Len(repo.parents)
RebaseClosed == IsSome(repo.rb) /\ repo'.rb = None

\* the steps of the open rebase up to the current one had no conflict
NoConflictSoFar(r) ==
    \A i \in 1..Unwrap(r.rb).msgnum : Unwrap(r.rb).ops[i] \notin conflicting

\* C19: in both variants a step that creates a commit is the commit
\* statement, taken with the index conflict-free after the advance to that
\* step (and to every step before); a step that finalizes the rebase is the
\* finish statement, taken when every step was advanced to, checked
\* conflict-free and committed and the index is conflict-free; a step that
\* aborts inside conflict_free_rebase is taken on a conflict; and whichever
\* of the two closes the rebase ends the call, so never both are applied.
C19_CommitAndFinishOnlyWhenClean ==
    [][ /\ CommitSynthesized =>
              /\ call.pc \in { "cfr_commit", "rb_commit" }
              /\ ~has_conflicts(repo)
              /\ IsSome(repo.rb)
              /\ Unwrap(repo.rb).msgnum = Len(call.synth) + 1
              /\ NoConflictSoFar(repo)
        /\ (RebaseClosed /\ call.pc # "idle") =>
              /\ call'.pc = "idle"
              /\ \/ /\ call.pc \in { "cfr_finish", "rb_finish" }
                    /\ repo' = git_rebase_finish(repo)
                    /\ ~has_conflicts(repo)
                    /\ Unwrap(repo.rb).msgnum = rebase_len(repo)
                    /\ Len(call.synth) = rebase_len(repo)
                    /\ NoConflictSoFar(repo)
                    /\ call'.ret.tag \in { "Ok", "NoCommitRebased", "Finished" }
                 \/ /\ call.pc \in { "cfr_check", "cfr_postcheck" }
                    /\ repo' = git_rebase_abort(repo)
                    /\ has_conflicts(repo)
                    /\ call'.ret.tag = "RebaseConflict"
        /\ (call.pc \in { "rb_check", "rb_postcheck" } /\ has_conflicts(repo))
              => (repo' = repo /\ call'.ret.tag = "Conflicted")
      ]_vars

\* a rebase of two steps was finalized after both were checked and committed
C19_Witness ==
    /\ Returned(call, "rebase")
    /\ call.ret.tag = "Finished"
    /\ Len(call.synth) = 2
    /\ repo.rb = None
    /\ repo.head = call.synth[2]

====
